---- MODULE Spec2Model ----
(***************************************************************************)
(* A model of finra.py (the "Dark Volume Dashboard"): the file cache of    *)
(* download_finra_data, the derived columns, the rolling accumulation      *)
(* flags and the filter / enrich / sort / truncate blocks of the seven     *)
(* tabs.                                                                   *)
(*                                                                         *)
(* Three specifications share the module's variables:                      *)
(*   SpecCache  calls of download_finra_data one after the other;          *)
(*   SpecRace   calls of download_finra_data interleaved statement by      *)
(*              statement (Streamlit runs each session in its own thread); *)
(*   SpecPipe   one button press of a tab on a loaded set of daily files.  *)
(***************************************************************************)
EXTENDS Integers, Sequences, FiniteSets, TLC

VARIABLES
    DATA_DIR,   \* the files of Data/Finra: date -> [exists, content]
    remote,     \* what cdn.finra.org answers for a date's file right now
    requests,   \* date -> number of requests.get calls made so far
    last,       \* the last finished call of download_finra_data
    fresh,      \* date -> what the call that wrote the date's file returned
    firstText,  \* date -> the text of the first 200 response for the date
    okCount,    \* date -> number of 200 responses received for the date
    pc,         \* SpecRace: session -> the statement it is at
    arg,        \* SpecRace: session -> the date it fetches
    resp,       \* SpecRace: session -> the response it holds
    offset,     \* SpecRace: session -> lines its open file has flushed
    ret,        \* SpecRace: session -> what its call returned
    nCalls,     \* SpecRace: session -> calls started
    quotes,     \* SpecPipe: symbol -> what yfinance answers for it
    run         \* SpecPipe: the button pressed and what it displayed

cacheVars == <<DATA_DIR, remote, requests, last, fresh, firstText, okCount>>
raceVars  == <<pc, arg, resp, offset, ret, nCalls>>
pipeVars  == <<quotes, run>>
vars      == <<cacheVars, raceVars, pipeVars>>

----------------------------------------------------------------------------
(* Bounds of the model. *)

\* Calendar dates the cache part asks for.
MaxDates == 1
\* Remote requests per date the cache part follows.
MaxRequests == 3
\* Sessions running download_finra_data at once.
NumSessions == 2
\* Calls each session starts.
MaxCalls == 2
\* SpecPipe: trading days a symbol of the short listings is listed for.
MaxListed == 6
\* SpecPipe: trading days of the long listing.
LongDays == 21

Dates == 1..MaxDates
Sessions == 1..NumSessions

----------------------------------------------------------------------------
(* The daily file: pipe-delimited text, a header line and one line per    *)
(* symbol.  A text is a sequence of lines, a line a sequence of fields;    *)
(* a symbol is written as its number in the listing.  The file carries a   *)
(* Date column of its own, which the volume tab reads (line 393).          *)

Header == <<"Date", "Symbol", "ShortVolume", "TotalVolume">>

\* A line of a file that was truncated under a writer: a run of NUL bytes.
NulLine == <<"NUL">>

\* The texts the remote source serves in the cache part.
TextA == <<Header, <<1, 1, 3, 4>>, <<1, 2, 1, 4>>>>
\* The same date after the source corrected it.
TextB == <<Header, <<1, 1, 2, 4>>, <<1, 2, 1, 4>>>>
\* A 200 response with an empty body.
EmptyText == <<>>
\* A 200 response whose third line has a field too many.
RaggedText == <<Header, <<1, 1, 3, 4>>, <<1, 2, 1, 4, 9>>>>

Texts == {TextA, TextB, EmptyText, RaggedText}

\* What requests.get / raise_for_status give: a ConnectionError, an HTTPError
\* (403/404: weekend, holiday, not yet published), or a 200 with a text.
Responses ==
    {[kind |-> "ConnectionError", text |-> <<>>],
     [kind |-> "HTTPError", text |-> <<>>]}
    \cup {[kind |-> "OK", text |-> t] : t \in Texts}

NoFile == [exists |-> FALSE, content |-> <<>>]
File(text) == [exists |-> TRUE, content |-> text]

\* The three things a call of download_finra_data can end in.
Data(rows) == [kind |-> "data", rows |-> rows, error |-> ""]
None == [kind |-> "None", rows |-> <<>>, error |-> ""]
Raise(e) == [kind |-> "raise", rows |-> <<>>, error |-> e]
NoCall == [kind |-> "", rows |-> <<>>, error |-> ""]

\* No button pressed yet in this script run.
NoRun ==
    [tab |-> "", status |-> "idle", data |-> <<>>, passed |-> <<>>,
     asked |-> <<>>, by |-> <<>>, cap |-> 0, table |-> <<>>,
     min_volume |-> 0, price_threshold |-> 0, dates |-> <<>>,
     mode |-> "", ratio |-> [n |-> 0, d |-> 0], dp_index |-> 0,
     cutoff |-> 0, undated |-> <<>>]

\* pd.read_csv(..., sep='|'): the first line names the columns; no line at all
\* raises EmptyDataError; a line with more fields than the parser expects
\* raises ParserError; a short line is padded with NaN.
Expected(text) ==
    IF Len(text) >= 2 /\ Len(text[2]) > Len(text[1]) THEN Len(text[2])
    ELSE Len(text[1])

ColumnOf(text, name) == CHOOSE c \in 1..Len(text[1]) : text[1][c] = name

ParseLine(text, i) ==
    [name \in {text[1][c] : c \in 1..Len(text[1])} |->
        IF ColumnOf(text, name) <= Len(text[i])
        THEN text[i][ColumnOf(text, name)] ELSE "NaN"]

read_csv(text) ==
    IF text = <<>> THEN Raise("EmptyDataError")
    ELSE IF \E i \in 2..Len(text) : Len(text[i]) > Expected(text)
         THEN Raise("ParserError")
    ELSE Data([i \in 1..(Len(text) - 1) |-> ParseLine(text, i + 1)])

\* os_path_exists answering for the remote too: true when FINRA has the file.
os_path_exists_or_published(date) ==
    DATA_DIR[date].exists \/ remote[date].kind = "OK"

\* os.path.exists(file_path) for the date's file name, line 22.
os_path_exists(date) == DATA_DIR[date].exists

\* with open(file_path, 'w') as f: f.write(response.text), lines 29-30, seen
\* from a single thread: the file holds the text when the block is left.
WriteFileTruncated(text) ==
    File(IF Len(text) > 1 THEN SubSeq(text, 1, Len(text) - 1) ELSE text)
WriteFile(text) == File(text)

----------------------------------------------------------------------------
(* download_finra_data called from a single thread: one action is one     *)
(* whole call.                                                            *)

\* The body of download_finra_data(date) against the response `r` that
\* requests.get would give: [file, gets, out], the date's file afterwards,
\* the number of requests.get calls made and what the call ends in.
download_finra_data_retry(date, r) ==
    IF os_path_exists(date)
    THEN [file |-> DATA_DIR[date], gets |-> 0,
          out |-> read_csv(DATA_DIR[date].content)]
    ELSE IF r.kind # "OK"
         THEN [file |-> DATA_DIR[date], gets |-> 2, out |-> None]
         ELSE [file |-> WriteFile(r.text), gets |-> 1, out |-> read_csv(r.text)]

download_finra_data_refresh(date, r) ==
    IF r.kind # "OK"
    THEN [file |-> DATA_DIR[date], gets |-> 1,
          out |-> IF os_path_exists(date)
                  THEN read_csv(DATA_DIR[date].content) ELSE None]
    ELSE [file |-> WriteFile(r.text), gets |-> 1, out |-> read_csv(r.text)]

download_finra_data(date, r) ==
    IF os_path_exists(date)
    THEN \* lines 22-23: the file is read, nothing is asked of the remote
         [file |-> DATA_DIR[date], gets |-> 0,
          out |-> read_csv(DATA_DIR[date].content)]
    ELSE IF r.kind # "OK"
         THEN \* lines 27-28, 33-35: RequestException is caught
              [file |-> DATA_DIR[date], gets |-> 1, out |-> None]
         ELSE \* lines 29-32: the text is written, then parsed; what read_csv
              \* raises is no RequestException and leaves the function
              [file |-> WriteFile(r.text), gets |-> 1, out |-> read_csv(r.text)]

\* One call of get_data_for_date(date), lines 38-39.
get_data_for_date(date) ==
    LET call == download_finra_data(date, remote[date])
        got200 == call.gets > 0 /\ remote[date].kind = "OK"
    IN  /\ requests[date] + call.gets <= MaxRequests
        /\ DATA_DIR' = [DATA_DIR EXCEPT ![date] = call.file]
        /\ requests' = [requests EXCEPT ![date] = @ + call.gets]
        /\ last' = [date |-> date, existed |-> os_path_exists(date),
                    before |-> DATA_DIR[date], gets |-> call.gets,
                    out |-> call.out]
        /\ fresh' = IF got200 /\ call.out.kind = "data"
                    THEN [fresh EXCEPT ![date] = call.out]
                    ELSE fresh
        /\ firstText' = IF got200 /\ okCount[date] = 0
                        THEN [firstText EXCEPT ![date] = remote[date].text]
                        ELSE firstText
        /\ okCount' = IF got200 THEN [okCount EXCEPT ![date] = @ + 1]
                      ELSE okCount
        /\ UNCHANGED <<remote, raceVars, pipeVars>>

\* The remote source changes what it serves for a date: a file is published,
\* corrected, or the network goes away.
RemoteChanges(date, r) ==
    /\ remote[date] # r
    /\ remote' = [remote EXCEPT ![date] = r]
    /\ UNCHANGED <<DATA_DIR, requests, last, fresh, firstText, okCount, raceVars, pipeVars>>

InitRaceIdle ==
    /\ quotes = <<>>
    /\ run = NoRun
    /\ pc = [s \in Sessions |-> "idle"]
    /\ arg = [s \in Sessions |-> 1]
    /\ resp = [s \in Sessions |-> [kind |-> "", text |-> <<>>]]
    /\ offset = [s \in Sessions |-> 0]
    /\ ret = [s \in Sessions |-> NoCall]
    /\ nCalls = [s \in Sessions |-> 0]

\* os.makedirs(DATA_DIR, exist_ok=True), line 13, on a fresh checkout.
InitCache ==
    /\ DATA_DIR = [d \in Dates |-> NoFile]
    /\ remote = [d \in Dates |-> [kind |-> "HTTPError", text |-> <<>>]]
    /\ requests = [d \in Dates |-> 0]
    /\ last = [date |-> 1, existed |-> FALSE, before |-> NoFile, gets |-> 0,
               out |-> NoCall]
    /\ fresh = [d \in Dates |-> NoCall]
    /\ firstText = [d \in Dates |-> <<>>]
    /\ okCount = [d \in Dates |-> 0]
    /\ InitRaceIdle

NextCache ==
    \/ \E date \in Dates : get_data_for_date(date)
    \/ \E date \in Dates, r \in Responses : RemoteChanges(date, r)

SpecCache == InitCache /\ [][NextCache]_vars

----------------------------------------------------------------------------
(* download_finra_data called by several sessions at once: one action is  *)
(* one statement of one session.  Nothing in the function locks the file. *)

\* f.write at the writer's own position: lines below it stay, a gap left by
\* another writer's truncation reads as NUL bytes.
WriteAt(content, off, lines) ==
    [i \in 1..(IF Len(content) > off + Len(lines)
               THEN Len(content) ELSE off + Len(lines)) |->
        IF i > off /\ i <= off + Len(lines) THEN lines[i - off]
        ELSE IF i <= Len(content) THEN content[i]
        ELSE NulLine]

Returned(s, out) ==
    /\ ret' = [ret EXCEPT ![s] = out]
    /\ pc' = [pc EXCEPT ![s] = "idle"]

\* Lines 18-21: the call is entered.
Call(s, date) ==
    /\ pc[s] = "idle"
    /\ nCalls[s] < MaxCalls
    /\ nCalls' = [nCalls EXCEPT ![s] = @ + 1]
    /\ arg' = [arg EXCEPT ![s] = date]
    /\ resp' = [resp EXCEPT ![s] = [kind |-> "", text |-> <<>>]]
    /\ ret' = [ret EXCEPT ![s] = NoCall]
    /\ pc' = [pc EXCEPT ![s] = "exists"]
    /\ UNCHANGED <<cacheVars, offset, pipeVars>>

\* Line 22: if os.path.exists(file_path).
Exists(s) ==
    /\ pc[s] = "exists"
    /\ pc' = [pc EXCEPT ![s] = IF os_path_exists(arg[s]) THEN "read" ELSE "get"]
    /\ UNCHANGED <<cacheVars, arg, resp, offset, ret, nCalls, pipeVars>>

\* Line 23: return pd.read_csv(file_path, sep='|').
ReadFile(s) ==
    /\ pc[s] = "read"
    /\ Returned(s, read_csv(DATA_DIR[arg[s]].content))
    /\ UNCHANGED <<cacheVars, arg, resp, offset, nCalls, pipeVars>>

\* Lines 27-28 and 33-35: requests.get, raise_for_status, the except clause.
Get(s) ==
    /\ pc[s] = "get"
    /\ resp' = [resp EXCEPT ![s] = remote[arg[s]]]
    /\ requests' = [requests EXCEPT ![arg[s]] = @ + 1]
    /\ IF remote[arg[s]].kind = "OK"
       THEN pc' = [pc EXCEPT ![s] = "open"] /\ ret' = ret
       ELSE Returned(s, None)
    /\ UNCHANGED <<DATA_DIR, remote, last, fresh, firstText, okCount,
                   arg, offset, nCalls, pipeVars>>

\* Line 29: open(file_path, 'w') creates the file or cuts it to nothing.
Open(s) ==
    /\ pc[s] = "open"
    /\ DATA_DIR' = [DATA_DIR EXCEPT ![arg[s]] = File(<<>>)]
    /\ offset' = [offset EXCEPT ![s] = 0]
    /\ pc' = [pc EXCEPT ![s] = "write"]
    /\ UNCHANGED <<remote, requests, last, fresh, firstText, okCount,
                   arg, resp, ret, nCalls, pipeVars>>

\* Line 30: f.write(response.text); the buffer is flushed a part at a time.
Flush(s) ==
    /\ pc[s] = "write"
    /\ \E k \in (offset[s] + 1)..(Len(resp[s].text) - 1) :
          /\ DATA_DIR' = [DATA_DIR EXCEPT ![arg[s]] =
                 File(WriteAt(@.content, offset[s],
                              SubSeq(resp[s].text, offset[s] + 1, k)))]
          /\ offset' = [offset EXCEPT ![s] = k]
    /\ UNCHANGED <<remote, requests, last, fresh, firstText, okCount,
                   pc, arg, resp, ret, nCalls, pipeVars>>

\* Line 30, the with block is left: the rest is flushed and the file closed.
Close(s) ==
    /\ pc[s] = "write"
    /\ DATA_DIR' = [DATA_DIR EXCEPT ![arg[s]] =
           File(WriteAt(@.content, offset[s],
                        SubSeq(resp[s].text, offset[s] + 1, Len(resp[s].text))))]
    /\ offset' = [offset EXCEPT ![s] = Len(resp[s].text)]
    /\ pc' = [pc EXCEPT ![s] = "parse"]
    /\ UNCHANGED <<remote, requests, last, fresh, firstText, okCount,
                   arg, resp, ret, nCalls, pipeVars>>

\* Lines 31-32: data = pd.read_csv(StringIO(response.text), sep='|').
ParseResponse(s) ==
    /\ pc[s] = "parse"
    /\ Returned(s, read_csv(resp[s].text))
    /\ UNCHANGED <<cacheVars, arg, resp, offset, nCalls, pipeVars>>

\* The source serves date 1 (a trading day, published) and not date 2: the
\* content of a date does not change while the sessions race.
InitRace ==
    /\ DATA_DIR = [d \in Dates |-> NoFile]
    /\ remote = [d \in Dates |->
                   IF d = 1 THEN [kind |-> "OK", text |-> TextA]
                   ELSE [kind |-> "HTTPError", text |-> <<>>]]
    /\ requests = [d \in Dates |-> 0]
    /\ last = [date |-> 1, existed |-> FALSE, before |-> NoFile, gets |-> 0,
               out |-> NoCall]
    /\ fresh = [d \in Dates |-> NoCall]
    /\ firstText = [d \in Dates |-> <<>>]
    /\ okCount = [d \in Dates |-> 0]
    /\ InitRaceIdle

NextRace ==
    \/ \E s \in Sessions, date \in Dates : Call(s, date)
    \/ \E s \in Sessions : Exists(s)
    \/ \E s \in Sessions : ReadFile(s)
    \/ \E s \in Sessions : Get(s)
    \/ \E s \in Sessions : Open(s)
    \/ \E s \in Sessions : Flush(s)
    \/ \E s \in Sessions : Close(s)
    \/ \E s \in Sessions : ParseResponse(s)

SpecRace == InitRace /\ [][NextRace]_vars

----------------------------------------------------------------------------
(* The claims about the cache.                                            *)

\* C1: a call that finds the date's file makes no remote request and returns
\* what the file holds; a call that does not find it makes exactly one
\* request.
C1_HitAsksNothingMissAsksOnce ==
    last.out # NoCall =>
        IF last.existed
        THEN last.gets = 0 /\ last.out = read_csv(last.before.content)
        ELSE last.gets = 1

\* A call served from a file that an earlier call of the same date wrote.
C1_Witness ==
    /\ last.existed /\ last.gets = 0 /\ last.out.kind = "data"
    /\ requests[last.date] >= 1

\* C2: a call that ends in failure (network error, error status, malformed
\* payload) leaves no file for the date.
C2_FailureLeavesNoEntry ==
    (~last.existed /\ last.out.kind \in {"None", "raise"})
        => ~DATA_DIR[last.date].exists

C4_EntryNeverChanges ==
    /\ [](\A d \in Dates :
            /\ okCount[d] <= 1
            /\ DATA_DIR[d].exists => DATA_DIR[d].content = firstText[d])
    /\ [][\A d \in Dates :
            DATA_DIR[d].exists =>
                /\ DATA_DIR'[d] = DATA_DIR[d]
                /\ requests'[d] = requests[d]]_vars

\* A date fetched after failures, kept while the source changed and was asked
\* for again.
C4_Witness ==
    \E d \in Dates :
        /\ DATA_DIR[d].exists /\ okCount[d] = 1 /\ requests[d] >= 2
        /\ last.date = d /\ last.existed
        /\ remote[d].kind = "OK" /\ remote[d].text # DATA_DIR[d].content

\* C5: every call that returns data returns the date's whole payload, however
\* the sessions interleave, and the file ends up holding the whole payload.
C5_ReadersSeeWholePayload ==
    \A s \in Sessions :
        (pc[s] = "idle" /\ ret[s].kind # "" /\ remote[arg[s]].kind = "OK")
            => ret[s] = read_csv(remote[arg[s]].text)

----------------------------------------------------------------------------
(* The tabs.  Volumes are counted in lots of 500,000 shares (the default   *)
(* min_volume of 1,000,000 is 2 lots), prices in dollars, dates in days    *)
(* (day 0 is a Monday).  A float is kept as the exact fraction [n, d]:     *)
(* d = 0 is inf (n > 0), -inf (n < 0) or NaN (n = 0).                      *)

\* rolling(window=5, ...), lines 190, 307, 507, 589, 815.
WINDOW == 5
\* timedelta(days=...) of each tab's date range.
DAYS_TICKER == 180
DAYS_DARK_POOLS == 14
DAYS_BUY_SIGNAL == 90
DAYS_ACCUMULATION == 7
DAYS_ACCUMULATION_CUTOFF == 2
DAYS_FILTER == 180
DAYS_ACCUMULATION_ANALYSIS == 180
\* head(...) of each tab.
HEAD_TICKER == 30
HEAD_DARK_POOLS == 100
HEAD_VOLUME == 100
HEAD_BUY_SIGNAL == 50
HEAD_ACCUMULATION == 50

Min(a, b) == IF a < b THEN a ELSE b

Rat(n, d) == IF d < 0 THEN [n |-> -n, d |-> -d] ELSE [n |-> n, d |-> d]
Num(v) == [n |-> v, d |-> 1]
NaN == [n |-> 0, d |-> 0]
IsNaN(x) == x.n = 0 /\ x.d = 0

\* IEEE comparisons: every comparison with NaN is false.
GT(x, y) ==
    /\ ~IsNaN(x) /\ ~IsNaN(y)
    /\ IF x.d = 0 /\ y.d = 0 THEN x.n > 0 /\ y.n < 0
       ELSE x.n * y.d > y.n * x.d
LT(x, y) == GT(y, x)
GE(x, y) == ~IsNaN(x) /\ ~IsNaN(y) /\ ~GT(y, x)
LE(x, y) == GE(y, x)

\* The thresholds written in the tabs.
RATIO_1_25 == Rat(5, 4)
RATIO_1_5 == Rat(3, 2)
RATIO_0_5 == Rat(1, 2)
DP_47 == Num(47)
DP_50 == Num(50)
PCT_100 == Num(100)

\* Series.round(2) of a non-negative quotient n / d, in hundredths: NumPy rounds
\* halves to even.
RoundHalfEven(n, d) ==
    LET q == n \div d
        r == n % d
    IN  IF 2 * r > d THEN q + 1
        ELSE IF 2 * r < d THEN q
        ELSE q + (q % 2)

\* (Bought / Total Volume * 100).round(2).
DP_Index(bought, total) ==
    IF total = 0 THEN Rat(bought, 0)
    ELSE IF total < 0 \/ bought < 0 THEN Rat(100 * bought, total)
    ELSE Rat(RoundHalfEven(10000 * bought, total), 100)

\* date.weekday() < 5, lines 163, 275, 488, 562, 677, 775.
weekday(date) == date % 7
IsWeekday(date) == weekday(date) < 5

\* [start + timedelta(days=i) for i in range((end - start).days + 1)] with the
\* weekends dropped.
DateRange(start, end) ==
    SelectSeq([i \in 1..(IF end >= start THEN end - start + 1 ELSE 0) |->
                  start + i - 1], IsWeekday)

\* The for loop over dates: get_data_for_date for each date in turn.  A call
\* that raises ends the script run there; the dates after it are not asked.
LoadCalls(dates) ==
    [i \in 1..Len(dates) |-> download_finra_data(dates[i], remote[dates[i]])]

FirstRaise(calls) ==
    IF \E i \in 1..Len(calls) : calls[i].out.kind = "raise"
    THEN CHOOSE i \in 1..Len(calls) :
            /\ calls[i].out.kind = "raise"
            /\ \A j \in 1..(i - 1) : calls[j].out.kind # "raise"
    ELSE 0

\* The calls the loop got to make.
CallsMade(calls) ==
    IF FirstRaise(calls) = 0 THEN Len(calls) ELSE FirstRaise(calls)

\* What the loop leaves in Data/Finra and how often it asked the remote: the
\* calls made, in order, each with its date, the file it left and the number of
\* requests it sent.
Made(dates, calls) ==
    SubSeq([i \in 1..Len(dates) |->
               [date |-> dates[i], file |-> calls[i].file,
                gets |-> calls[i].gets]], 1, CallsMade(calls))

\* The position in `made` of the call for each date, 0 when it was not asked.
CallAt(made) ==
    SubSeq([d \in 1..Len(DATA_DIR) |->
               IF \E i \in 1..Len(made) : made[i].date = d
               THEN CHOOSE i \in 1..Len(made) : made[i].date = d
               ELSE 0], 1, Len(DATA_DIR))

Fetched(dates, calls) ==
    \E made \in {Made(dates, calls)} :
        \E at \in {CallAt(made)} :
            /\ DATA_DIR' = [d \in DOMAIN DATA_DIR |->
                               IF at[d] # 0 THEN made[at[d]].file
                               ELSE DATA_DIR[d]]
            /\ requests' = [d \in DOMAIN requests |->
                               IF at[d] # 0 THEN requests[d] + made[at[d]].gets
                               ELSE requests[d]]

\* daily_data['Date'] = date.
WithDate(rows, date) ==
    [i \in 1..Len(rows) |->
        [Symbol |-> rows[i].Symbol, ShortVolume |-> rows[i].ShortVolume,
         TotalVolume |-> rows[i].TotalVolume, Date |-> date]]

RECURSIVE Concat(_)
\* pd.concat(data_frames, ignore_index=True).
Concat(frames) ==
    IF frames = <<>> THEN <<>>
    ELSE Concat(SubSeq(frames, 1, Len(frames) - 1)) \o frames[Len(frames)]

\* Series.sum() of an integer column, rows lo..hi.
RECURSIVE SumField(_, _, _, _)
SumField(rows, field, lo, hi) ==
    IF lo > hi THEN 0
    ELSE IF lo = hi THEN rows[lo][field]
    ELSE LET mid == (lo + hi) \div 2
         IN  SumField(rows, field, lo, mid) + SumField(rows, field, mid + 1, hi)

\* DeriveRow with Sold kept from going below 0.
DeriveRow_clamped(r, sum, count) ==
    LET bought == r.ShortVolume
        sold == IF r.TotalVolume < r.ShortVolume THEN 0
                ELSE r.TotalVolume - r.ShortVolume
        total == bought + sold
    IN  [Symbol |-> r.Symbol, Date |-> r.Date,
         ShortVolume |-> r.ShortVolume, TotalVolume |-> r.TotalVolume,
         Bought |-> bought, Sold |-> sold, Total_Volume |-> total,
         Buy_Sell_Ratio |-> Rat(bought, sold),
         Pct_Avg |-> Rat(100 * total * count, sum),
         DP_Index |-> DP_Index(bought, total),
         Accumulation |-> FALSE, Rolling_Accumulation |-> FALSE,
         Closing_Price |-> NaN]

\* DeriveRow with the division guarded: a ratio of 0 where nothing was sold.
DeriveRow_zero_ratio(r, sum, count) ==
    LET bought == r.ShortVolume
        sold == r.TotalVolume - r.ShortVolume
        total == bought + sold
    IN  [Symbol |-> r.Symbol, Date |-> r.Date,
         ShortVolume |-> r.ShortVolume, TotalVolume |-> r.TotalVolume,
         Bought |-> bought, Sold |-> sold, Total_Volume |-> total,
         Buy_Sell_Ratio |-> IF sold = 0 THEN Num(0) ELSE Rat(bought, sold),
         Pct_Avg |-> Rat(100 * total * count, sum),
         DP_Index |-> DP_Index(bought, total),
         Accumulation |-> FALSE, Rolling_Accumulation |-> FALSE,
         Closing_Price |-> NaN]

\* The derived columns: Bought, Sold, Total Volume, Buy-Sell Ratio, % Avg and
\* DP Index (lines 178-183 and their copies in every tab).
DeriveRow(r, sum, count) ==
    LET bought == r.ShortVolume
        sold == r.TotalVolume - r.ShortVolume
        total == bought + sold
    IN  [Symbol |-> r.Symbol, Date |-> r.Date,
         ShortVolume |-> r.ShortVolume, TotalVolume |-> r.TotalVolume,
         Bought |-> bought, Sold |-> sold, Total_Volume |-> total,
         Buy_Sell_Ratio |-> Rat(bought, sold),
         Pct_Avg |-> Rat(100 * total * count, sum),
         DP_Index |-> DP_Index(bought, total),
         Accumulation |-> FALSE, Rolling_Accumulation |-> FALSE,
         Closing_Price |-> NaN]

Derive(data) ==
    LET sum == SumField(data, "TotalVolume", 1, Len(data))
        derived == [i \in 1..Len(data) |-> DeriveRow(data[i], sum, Len(data))]
    IN  SubSeq(derived, 1, Len(data))

\* The columns sort_values is given.
KeyOf(row, key) ==
    CASE key = "Date" -> Num(row.Date)
      [] key = "Bought" -> Num(row.Bought)
      [] key = "Sold" -> Num(row.Sold)
      [] key = "Buy_Sell_Ratio" -> row.Buy_Sell_Ratio
      [] key = "DP_Index" -> row.DP_Index

\* ascending=False with the default na_position='last'.
Precedes(x, y) == (~IsNaN(x) /\ IsNaN(y)) \/ GT(x, y)

LexBefore(a, b, by) ==
    \E k \in 1..Len(by) :
        /\ Precedes(KeyOf(a, by[k]), KeyOf(b, by[k]))
        /\ \A j \in 1..(k - 1) :
              /\ ~Precedes(KeyOf(a, by[j]), KeyOf(b, by[j]))
              /\ ~Precedes(KeyOf(b, by[j]), KeyOf(a, by[j]))

\* DataFrame.sort_values(by=[...], ascending=False): rows that tie on every key
\* keep the order they came in.
sort_values(rows, by) ==
    LET n == Len(rows)
        Ahead(j, i) == \/ LexBefore(rows[j], rows[i], by)
                       \/ j < i /\ ~LexBefore(rows[i], rows[j], by)
        place == [i \in 1..n |-> 1 + Cardinality({j \in 1..n : Ahead(j, i)})]
        placed == SubSeq(place, 1, n)
    IN  [p \in 1..n |-> rows[CHOOSE i \in 1..n : placed[i] = p]]

\* DataFrame.head(n).
head(rows, n) == SubSeq(rows, 1, Min(n, Len(rows)))

\* The Symbol column as it is, repeats included.
unique_with_repeats(rows) == [k \in 1..Len(rows) |-> rows[k].Symbol]

\* data['Symbol'].unique(): the symbols in the order they first appear.
unique(rows) ==
    LET First(i) == \A j \in 1..(i - 1) : rows[j].Symbol # rows[i].Symbol
        firsts == SelectSeq([i \in 1..Len(rows) |-> i], First)
    IN  [k \in 1..Len(firsts) |-> rows[firsts[k]].Symbol]

\* fetch_closing_prices(symbols), lines 42-52: a symbol gets a price only when
\* its history came back and is not empty; an exception is warned about.
fetch_closing_prices(symbols) ==
    [sym \in {symbols[i] : i \in 1..Len(symbols)} |->
        IF quotes[sym].kind = "history" THEN Num(quotes[sym].Close) ELSE NaN]

\* data['Closing Price'] = data['Symbol'].map(closing_prices): NaN for a symbol
\* the dict does not hold.
map_prices(rows, closing_prices) ==
    [i \in 1..Len(rows) |->
        [rows[i] EXCEPT !.Closing_Price = closing_prices[rows[i].Symbol]]]

\* data[data['Closing Price'] > price_threshold].
price_filter_keep_missing(rows, price_threshold) ==
    LET Test(r) == ~LE(r.Closing_Price, Num(price_threshold))
    IN  SelectSeq(rows, Test)
price_filter(rows, price_threshold) ==
    LET Test(r) == GT(r.Closing_Price, Num(price_threshold))
    IN  SelectSeq(rows, Test)

\* The lookup, the new column and the price filter together.
with_prices(rows, price_threshold) ==
    price_filter(map_prices(rows, fetch_closing_prices(unique(rows))),
                 price_threshold)

\* volume_filter with the test on Sold left out.
volume_filter_bought_only(rows, min_volume) ==
    LET Test(r) == r.Bought >= min_volume
    IN  SelectSeq(rows, Test)

\* data[(data['Bought'] >= min_volume) & (data['Sold'] >= min_volume)].
volume_filter(rows, min_volume) ==
    LET Test(r) == r.Bought >= min_volume /\ r.Sold >= min_volume
    IN  SelectSeq(rows, Test)

\* x.rolling(window=5, min_periods=5).sum() >= min_count at position i of a
\* sequence of booleans: NaN, so False, below five observations.
rolling_sum_ge(flags, i, min_count) ==
    /\ i >= WINDOW
    /\ Cardinality({k \in (i - WINDOW + 1)..i : flags[k]}) >= min_count

\* The positions up to i of the rows of row i's symbol: its group in
\* groupby('Symbol').
GroupUpTo(data, i) ==
    LET Same(k) == data[k].Symbol = data[i].Symbol
    IN  SelectSeq([k \in 1..i |-> k], Same)

\* groupby('Symbol')[...].transform(lambda x: x.rolling(...).sum() >= c).
grouped_rolling(data, flags, i, min_count) ==
    LET g == GroupUpTo(data, i)
    IN  rolling_sum_ge([k \in 1..Len(g) |-> flags[g[k]]], Len(g), min_count)

\* data['Accumulation'].rolling(...) on the frame as it stands, every symbol's
\* rows in one column.
ungrouped_rolling(data, flags, i, min_count) ==
    rolling_sum_ge(flags, i, min_count)

SetFlags(data, acc, roll) ==
    [i \in 1..Len(data) |->
        [data[i] EXCEPT !.Accumulation = acc[i],
                        !.Rolling_Accumulation = roll[i]]]

Flagged(rows) ==
    LET Test(r) == r.Accumulation /\ r.Rolling_Accumulation
    IN  SelectSeq(rows, Test)

\* The frames the loop over dates appends: a date whose call returned None is
\* skipped; kept[i] is what the tab's filter leaves of the i-th day's rows;
\* some tabs skip a day left with no row.
LoadFrames(dates, calls, kept, drop_empty) ==
    LET Frame(i) == WithDate(kept[i], dates[i])
        Has(i) == /\ calls[i].out.kind = "data"
                  /\ ~drop_empty \/ Frame(i) # <<>>
        loaded == SelectSeq([i \in 1..Len(dates) |-> i], Has)
    IN  [k \in 1..Len(loaded) |-> Frame(loaded[k])]

\* What a button press ends in.
\* data: the frame the flags were computed on; passed: the rows left by the
\* volume, ratio, DP Index and date filters; asked: the symbols handed to
\* fetch_closing_prices; by, cap: the arguments of sort_values and head (cap 0:
\* no head); table: the frame displayed.
Raised(tab) ==
    [tab |-> tab, status |-> "raise", data |-> <<>>, passed |-> <<>>,
     asked |-> <<>>, by |-> <<>>, cap |-> 0, table |-> <<>>]
Warning(tab) ==
    [tab |-> tab, status |-> "warning", data |-> <<>>, passed |-> <<>>,
     asked |-> <<>>, by |-> <<>>, cap |-> 0, table |-> <<>>]
Table(tab, data, passed, asked, by, cap, table) ==
    [tab |-> tab, status |-> "table", data |-> data, passed |-> passed,
     asked |-> asked, by |-> by, cap |-> cap, table |-> table]

\* The filter inputs of a press.  mode: the "Buy" or "Sell" choice of a tab
\* that tests the ratio against a threshold; ratio, dp_index: the thresholds;
\* cutoff: the date the rows are cut at; undated: the rows that pass every
\* filter but the cut at cutoff.
Filters(mode, ratio, dp_index, cutoff, undated) ==
    [mode |-> mode, ratio |-> ratio, dp_index |-> dp_index,
     cutoff |-> cutoff, undated |-> undated]
NoFilters == Filters("", NaN, 0, 0, <<>>)

----------------------------------------------------------------------------
\* tabs[0], "Run Ticker Analysis", lines 156-249.
TickerAnalysis(symbol, end_date, before5pm) ==
    LET start_date == end_date - DAYS_TICKER
        end == IF before5pm THEN end_date - 1 ELSE end_date
        dates == DateRange(start_date, end)
        calls == LoadCalls(dates)
        Keep(r) == r.Symbol = symbol
        kept == [i \in 1..Len(dates) |->
                    SelectSeq(calls[i].out.rows, Keep)]
        data_frames == LoadFrames(dates, calls, kept, TRUE)
        derived == Derive(Concat(data_frames))
        acc == [i \in 1..Len(derived) |->
                   GT(derived[i].Buy_Sell_Ratio, RATIO_1_25)]
        roll == [i \in 1..Len(derived) |->
                    ungrouped_rolling(derived, acc, i, 5)]
        data == SetFlags(derived, acc, roll)
    IN  [dates |-> dates, calls |-> calls, filters |-> NoFilters,
         out |-> IF FirstRaise(calls) # 0 THEN Raised("Ticker Analysis")
                 ELSE IF data_frames = <<>> THEN Warning("Ticker Analysis")
                 ELSE Table("Ticker Analysis", data, data, <<>>,
                            <<"Date">>, HEAD_TICKER,
                            head(sort_values(data, <<"Date">>), HEAD_TICKER))]

\* tabs[4], "Find accumulation", lines 555-639.
Accumulation(end_date, before5pm, min_volume, price_threshold) ==
    LET start_date == end_date - DAYS_ACCUMULATION
        analysis_start_date == end_date - DAYS_ACCUMULATION_CUTOFF
        end == IF before5pm THEN end_date - 1 ELSE end_date
        dates == DateRange(start_date, end)
        calls == LoadCalls(dates)
        Keep(r) == TRUE
        kept == [i \in 1..Len(dates) |->
                    SelectSeq(calls[i].out.rows, Keep)]
        data_frames == LoadFrames(dates, calls, kept, TRUE)
        derived == Derive(Concat(data_frames))
        acc == [i \in 1..Len(derived) |->
                   /\ GT(derived[i].Buy_Sell_Ratio, RATIO_1_25)
                   /\ GT(derived[i].DP_Index, DP_47)]
        roll == [i \in 1..Len(derived) |->
                    ungrouped_rolling(derived, acc, i, 3)]
        data == SetFlags(derived, acc, roll)
        InWindow(r) == r.Date > analysis_start_date
        undated == volume_filter(Flagged(data), min_volume)
        passed == SelectSeq(undated, InWindow)
        priced == with_prices(passed, price_threshold)
        by == <<"Date", "Buy_Sell_Ratio", "DP_Index", "Bought">>
    IN  [dates |-> dates, calls |-> calls,
         filters |-> Filters("", NaN, 0, analysis_start_date, undated),
         out |-> IF FirstRaise(calls) # 0 THEN Raised("Accumulation")
                 ELSE IF data_frames = <<>> THEN Warning("Accumulation")
                 ELSE Table("Accumulation", data, passed, unique(passed),
                            by, HEAD_ACCUMULATION,
                            head(sort_values(priced, by), HEAD_ACCUMULATION))]

\* tabs[6], "Run Accumulation Analysis", lines 760-837.  analysis_end_date is
\* the date input of the Buy Signal tab, the last assignment the script made.
AccumulationAnalysis(end_date, before5pm, buy_signal_end_date, min_volume) ==
    LET start_date == end_date - DAYS_ACCUMULATION_ANALYSIS
        end == IF before5pm THEN end_date - 1 ELSE end_date
        analysis_end_date == IF os_path_exists(buy_signal_end_date)
                             THEN buy_signal_end_date
                             ELSE buy_signal_end_date - 1
        dates == DateRange(start_date, end)
        calls == LoadCalls(dates)
        Keep(r) == TRUE
        kept == [i \in 1..Len(dates) |->
                    SelectSeq(calls[i].out.rows, Keep)]
        data_frames == LoadFrames(dates, calls, kept, TRUE)
        derived == Derive(Concat(data_frames))
        acc == [i \in 1..Len(derived) |->
                   GT(derived[i].Buy_Sell_Ratio, RATIO_1_25)]
        roll == [i \in 1..Len(derived) |->
                    grouped_rolling(derived, acc, i, 5)]
        data == SetFlags(derived, acc, roll)
        InWindow(r) == r.Date >= analysis_end_date
        passed == volume_filter(SelectSeq(Flagged(data), InWindow), min_volume)
        undated == volume_filter(Flagged(data), min_volume)
    IN  [dates |-> dates, calls |-> calls,
         filters |-> Filters("", NaN, 0, analysis_end_date, undated),
         out |-> IF FirstRaise(calls) # 0 THEN Raised("Accumulation Analysis")
                 ELSE IF data_frames = <<>> THEN Warning("Accumulation Analysis")
                 ELSE Table("Accumulation Analysis", data, passed, <<>>,
                            <<>>, 0, passed)]

RECURSIVE GCD(_, _)
GCD(a, b) == IF b = 0 THEN a ELSE GCD(b, a % b)
Abs(a) == IF a < 0 THEN -a ELSE a
Reduce(n, d) ==
    IF d = 0 THEN [n |-> IF n > 0 THEN 1 ELSE IF n < 0 THEN -1 ELSE 0, d |-> 0]
    ELSE LET g == GCD(Abs(n), Abs(d)) IN Rat(n \div g, d \div g)

\* Float addition and division by a count, on the exact fractions.
RatAdd(x, y) ==
    IF IsNaN(x) \/ IsNaN(y) THEN NaN
    ELSE IF x.d = 0 /\ y.d = 0 THEN (IF x.n > 0 /\ y.n > 0 THEN Rat(1, 0)
                                     ELSE IF x.n < 0 /\ y.n < 0 THEN Rat(-1, 0)
                                     ELSE NaN)
    ELSE IF x.d = 0 THEN x
    ELSE IF y.d = 0 THEN y
    ELSE Reduce(x.n * y.d + y.n * x.d, x.d * y.d)
RatDiv(x, count) == IF x.d = 0 THEN x ELSE Reduce(x.n, x.d * count)

RECURSIVE RatSum(_, _)
RatSum(values, n) ==
    IF n = 0 THEN Num(0) ELSE RatAdd(RatSum(values, n - 1), values[n])

\* Series.mean(): NaN values are skipped; the mean of none is NaN.
mean(values) ==
    LET Known(x) == ~IsNaN(x)
        known == SelectSeq(values, Known)
    IN  IF known = <<>> THEN NaN
        ELSE RatDiv(RatSum(known, Len(known)), Len(known))

\* groupby keys come out sorted: by Symbol, then by Date.
KeyLE(a, b) == a[1] < b[1] \/ (a[1] = b[1] /\ a[2] <= b[2])
SortedKeys(keys) ==
    LET First(i) == \A j \in 1..(i - 1) : keys[j] # keys[i]
        firsts == SelectSeq([i \in 1..Len(keys) |-> i], First)
        n == Len(firsts)
        place == [i \in 1..n |->
                     Cardinality({j \in 1..n : KeyLE(keys[firsts[j]],
                                                     keys[firsts[i]])})]
        placed == SubSeq(place, 1, n)
    IN  [p \in 1..n |-> keys[firsts[CHOOSE i \in 1..n : placed[i] = p]]]

\* One row of groupby(...).agg({'Buy-Sell Ratio': 'mean', 'Bought': 'sum',
\* 'Sold': 'sum'}).reset_index().
AggRow(rows, symbol, date) ==
    [Symbol |-> symbol, Date |-> date,
     ShortVolume |-> 0, TotalVolume |-> 0,
     Bought |-> SumField(rows, "Bought", 1, Len(rows)),
     Sold |-> SumField(rows, "Sold", 1, Len(rows)),
     Total_Volume |-> 0,
     Buy_Sell_Ratio |-> mean([i \in 1..Len(rows) |-> rows[i].Buy_Sell_Ratio]),
     Pct_Avg |-> NaN, DP_Index |-> NaN,
     Accumulation |-> FALSE, Rolling_Accumulation |-> FALSE,
     Closing_Price |-> NaN]

\* combined_data.groupby(['Symbol', 'Date']).agg(...), lines 300-304.
GroupBySymbolDate(rows) ==
    LET Key(r) == <<r.Symbol, r.Date>>
        keys == SortedKeys(SubSeq([i \in 1..Len(rows) |-> Key(rows[i])], 1,
                                  Len(rows)))
        Group(k) == LET In(r) == Key(r) = keys[k]
                    IN  SelectSeq(rows, In)
        groups == [k \in 1..Len(keys) |->
                      AggRow(Group(k), keys[k][1], keys[k][2])]
    IN  SubSeq(groups, 1, Len(keys))

\* accumulation.groupby('Symbol').agg(...), lines 314-318.
GroupBySymbol(rows, date) ==
    LET Key(r) == <<r.Symbol, 0>>
        keys == SortedKeys(SubSeq([i \in 1..Len(rows) |-> Key(rows[i])], 1,
                                  Len(rows)))
        Group(k) == LET In(r) == Key(r) = keys[k]
                    IN  SelectSeq(rows, In)
        groups == [k \in 1..Len(keys) |-> AggRow(Group(k), keys[k][1], date)]
    IN  SubSeq(groups, 1, Len(keys))

\* tabs[1], "Run Dark Pools Analysis", lines 262-348.
TopDarkPools(end_date, min_volume, price_threshold) ==
    LET analysis_start_date == end_date - DAYS_DARK_POOLS
        analysis_end_date == IF os_path_exists(end_date) THEN end_date
                             ELSE end_date - 1
        dates == DateRange(analysis_start_date, analysis_end_date)
        calls == LoadCalls(dates)
        Keep(r) == /\ r.ShortVolume >= min_volume
                   /\ r.TotalVolume - r.ShortVolume >= min_volume
        kept == [i \in 1..Len(dates) |->
                    SelectSeq(calls[i].out.rows, Keep)]
        data_frames == LoadFrames(dates, calls, kept, FALSE)
        combined_data == Derive(Concat(data_frames))
        grouped == GroupBySymbolDate(combined_data)
        acc == [i \in 1..Len(grouped) |->
                   GT(grouped[i].Buy_Sell_Ratio, RATIO_1_25)]
        roll == [i \in 1..Len(grouped) |->
                    grouped_rolling(grouped, acc, i, 5)]
        accumulation == SetFlags(grouped, acc, roll)
        Consistent(r) == r.Rolling_Accumulation
        top_dark_pools == GroupBySymbol(SelectSeq(accumulation, Consistent),
                                        analysis_end_date)
        by == <<"Buy_Sell_Ratio">>
        top == head(sort_values(top_dark_pools, by), HEAD_DARK_POOLS)
    IN  [dates |-> dates, calls |-> calls, filters |-> NoFilters,
         out |-> IF FirstRaise(calls) # 0 THEN Raised("Top Dark Pools")
                 ELSE IF data_frames = <<>> THEN Warning("Top Dark Pools")
                 ELSE Table("Top Dark Pools", accumulation, top_dark_pools,
                            unique(top), by, HEAD_DARK_POOLS,
                            with_prices(top, price_threshold))]

\* tabs[2], "Buy Volume Analysis" and "Sell Volume Analysis", lines 357-460.
\* analysis_end_date is the date input of the Top Dark Pools tab.
VolumeAnalysis(buy, analysis_date, dark_pools_end_date, min_volume, price_threshold) ==
    LET tab == IF buy THEN "Buy Volume Analysis" ELSE "Sell Volume Analysis"
        date == IF os_path_exists(dark_pools_end_date) THEN analysis_date
                ELSE analysis_date - 1
        dates == <<date>>
        calls == LoadCalls(dates)
        daily_data == Derive(calls[1].out.rows)
        InRatio(r) == IF buy THEN GT(r.Buy_Sell_Ratio, RATIO_1_5)
                      ELSE LT(r.Buy_Sell_Ratio, RATIO_0_5)
        passed == SelectSeq(volume_filter(daily_data, min_volume), InRatio)
        by == <<"Buy_Sell_Ratio", "DP_Index", IF buy THEN "Bought" ELSE "Sold">>
        top_volume_stocks == head(sort_values(passed, by), HEAD_VOLUME)
    IN  [dates |-> dates, calls |-> calls,
         filters |-> Filters(IF buy THEN "Buy" ELSE "Sell",
                             IF buy THEN RATIO_1_5 ELSE RATIO_0_5, 0, 0, <<>>),
         out |-> IF FirstRaise(calls) # 0 THEN Raised(tab)
                 ELSE IF calls[1].out.kind = "None" THEN Warning(tab)
                 ELSE Table(tab, daily_data, passed, unique(top_volume_stocks),
                            by, HEAD_VOLUME,
                            with_prices(top_volume_stocks, price_threshold))]

\* rolling(window=w, min_periods=1): the mean of the observations there are.
rolling_mean_gt_min_periods_1(values, i, w, threshold) ==
    LET lo == IF i >= w THEN i - w + 1 ELSE 1
    IN  /\ i >= 1
        /\ \A k \in lo..i : values[k].d # 0
        /\ GT(RatDiv(RatSum(SubSeq(values, lo, i), i - lo + 1), i - lo + 1),
              threshold)

\* x.rolling(window=w).mean() > 50 at position i: NaN below w observations.
rolling_mean_gt(values, i, w, threshold) ==
    /\ i >= w
    /\ \A k \in (i - w + 1)..i : values[k].d # 0
    /\ GT(RatDiv(RatSum(SubSeq(values, i - w + 1, i), w), w), threshold)

grouped_rolling_mean_gt(data, i, w, threshold) ==
    LET g == GroupUpTo(data, i)
    IN  rolling_mean_gt([k \in 1..Len(g) |-> data[g[k]].DP_Index], Len(g), w,
                        threshold)

\* tabs[3], "Run Buy Signal Analysis", lines 474-542.  signal_start_date is
\* computed from the date input of the volume tab.
BuySignalAnalysis(end_date, analysis_date, min_volume, price_threshold) ==
    LET analysis_start_date == end_date - DAYS_BUY_SIGNAL
        signal_start_date == analysis_date - 1
        analysis_end_date == IF os_path_exists(end_date) THEN end_date
                             ELSE end_date - 1
        dates == DateRange(analysis_start_date, analysis_end_date)
        calls == LoadCalls(dates)
        Keep(r) == TRUE
        kept == [i \in 1..Len(dates) |->
                    SelectSeq(calls[i].out.rows, Keep)]
        data_frames == LoadFrames(dates, calls, kept, FALSE)
        combined_data == Derive(Concat(data_frames))
        Undated(i) ==
            /\ combined_data[i].Bought >= min_volume
            /\ combined_data[i].Sold >= min_volume
            /\ GT(combined_data[i].DP_Index, DP_50)
            /\ grouped_rolling_mean_gt(combined_data, i, 5, DP_50)
            /\ grouped_rolling_mean_gt(combined_data, i, 10, DP_50)
            /\ grouped_rolling_mean_gt(combined_data, i, 20, DP_50)
            /\ GT(combined_data[i].Buy_Sell_Ratio, RATIO_1_25)
            /\ GT(combined_data[i].Pct_Avg, PCT_100)
            /\ combined_data[i].Date <= analysis_end_date
        Signal(i) ==
            /\ Undated(i)
            /\ combined_data[i].Date >= signal_start_date
        undatedAt == SelectSeq([i \in 1..Len(combined_data) |-> i], Undated)
        undated == [k \in 1..Len(undatedAt) |-> combined_data[undatedAt[k]]]
        passedAt == SelectSeq(undatedAt, Signal)
        passed == [k \in 1..Len(passedAt) |-> combined_data[passedAt[k]]]
        priced == with_prices(passed, price_threshold)
        by == <<"Bought", "Buy_Sell_Ratio", "DP_Index">>
    IN  [dates |-> dates, calls |-> calls,
         filters |-> Filters("", NaN, 0, signal_start_date, undated),
         out |-> IF FirstRaise(calls) # 0 THEN Raised("Buy Signal Analysis")
                 ELSE IF data_frames = <<>> THEN Warning("Buy Signal Analysis")
                 ELSE Table("Buy Signal Analysis", combined_data, passed,
                            unique(passed), by, HEAD_BUY_SIGNAL,
                            head(sort_values(priced, by), HEAD_BUY_SIGNAL))]

\* tabs[5], "Filter Analysis", lines 665-750.  symbol 0 is the empty input.
FilterAnalysis(symbol, end_date, min_volume, price_threshold, buy_sell_ratio, dp_index, buy_or_sell) ==
    LET start_date == end_date - DAYS_FILTER
        analysis_start_date == IF weekday(end_date) = 0 THEN end_date - 3
                               ELSE end_date - 1
        end == IF os_path_exists(end_date) THEN end_date ELSE end_date - 1
        dates == DateRange(start_date, end)
        calls == LoadCalls(dates)
        Keep(r) == symbol = 0 \/ r.Symbol = symbol
        kept == [i \in 1..Len(dates) |->
                    SelectSeq(calls[i].out.rows, Keep)]
        data_frames == LoadFrames(dates, calls, kept, TRUE)
        data == Derive(Concat(data_frames))
        InRatio(r) ==
            IF buy_or_sell = "Buy"
            THEN /\ GE(r.Buy_Sell_Ratio, buy_sell_ratio)
                 /\ GE(r.DP_Index, Num(dp_index))
            ELSE /\ LE(r.Buy_Sell_Ratio, buy_sell_ratio)
                 /\ LE(r.DP_Index, Num(dp_index))
        InWindow(r) == r.Date >= analysis_start_date
        undated == SelectSeq(volume_filter(data, min_volume), InRatio)
        passed == SelectSeq(undated, InWindow)
        priced == with_prices(passed, price_threshold)
        by == <<"Date", "Buy_Sell_Ratio", "DP_Index",
                IF buy_or_sell = "Buy" THEN "Bought" ELSE "Sold">>
    IN  [dates |-> dates, calls |-> calls,
         filters |-> Filters(buy_or_sell, buy_sell_ratio, dp_index,
                             analysis_start_date, undated),
         out |-> IF FirstRaise(calls) # 0 THEN Raised("Filter Analysis")
                 ELSE IF data_frames = <<>> THEN Warning("Filter Analysis")
                 ELSE Table("Filter Analysis", data, passed, unique(passed),
                            by, 0, sort_values(priced, by))]

----------------------------------------------------------------------------
(* SpecPipe: one button press on a set of daily files.                    *)

\* Every date input defaults to datetime.today(): day 184, a Wednesday.
TODAY == 184
CalendarDays == 1..TODAY
\* The inputs left at their defaults: min_volume 1,000,000 (2 lots),
\* price_threshold 5.0, buy_sell_ratio 1.25, dp_index 50.
MinVolumeInputs == {2}
PriceThresholdInputs == {5}
RatioInputs == {RATIO_1_25}
DPIndexInputs == {50}
\* The symbols of the listings; 0 is the empty symbol input.
Symbols == {1, 2}

\* The trading days up to today, the k-th most recent one.
TradingDays == DateRange(1, TODAY)
Recent(k) == TradingDays[Len(TradingDays) - k + 1]
DaysBack(date) == CHOOSE k \in 1..Len(TradingDays) : Recent(k) = date

\* A symbol's line of a day's file: more bought than sold (ratio 2, DP 66.67),
\* less bought than sold (ratio 0.29, DP 22.22), or the first at twice the
\* volume.
High(date, symbol) == <<date, symbol, 6, 9>>
Low(date, symbol) == <<date, symbol, 2, 9>>
Heavy(date, symbol) == <<date, symbol, 12, 18>>

\* A short listing: symbol 1 on each of the `listed` most recent published
\* days, Low on the `low`-th of them and High on the others; symbol 2, when
\* `two`, High on the same days.  `skip` is 1 when today's file is not out yet.
ShortText(date, listed, low, two, skip) ==
    LET k == DaysBack(date) - skip
    IN  <<Header>>
        \o (IF k = low THEN <<Low(date, 1)>> ELSE <<High(date, 1)>>)
        \o (IF two THEN <<High(date, 2)>> ELSE <<>>)

\* The long listing: symbol 1 Heavy and symbol 2 Low on each of the LongDays
\* most recent published days.
LongText(date) == <<Header, Heavy(date, 1), Low(date, 2)>>

Published(date, days, skip) ==
    /\ IsWeekday(date)
    /\ DaysBack(date) > skip
    /\ DaysBack(date) <= days + skip

NotFound == [kind |-> "HTTPError", text |-> <<>>]

ShortRemote(listed, low, two, skip) ==
    [d \in CalendarDays |->
        IF Published(d, listed, skip)
        THEN [kind |-> "OK", text |-> ShortText(d, listed, low, two, skip)]
        ELSE NotFound]

LongRemote(skip) ==
    [d \in CalendarDays |->
        IF Published(d, LongDays, skip)
        THEN [kind |-> "OK", text |-> LongText(d)]
        ELSE NotFound]

PipeRemotes ==
    {ShortRemote(listed, low, two, skip) :
        listed \in 0..MaxListed, low \in 0..MaxListed, two \in BOOLEAN,
        skip \in {0, 1}}
    \cup {LongRemote(skip) : skip \in {0, 1}}

\* What yfinance has: a history whose close is above or below the default
\* threshold, an empty history, or an exception.
Quote(kind, close) == [kind |-> kind, Close |-> close]
PipeQuotes ==
    {[sym \in Symbols |-> IF sym = 1 THEN q ELSE Quote("history", 10)] :
        q \in {Quote("history", 10), Quote("history", 3), Quote("empty", 0),
               Quote("raise", 0)}}

\* Data/Finra holds every published file (earlier runs fetched them) or none.
InitPipe ==
    /\ remote \in PipeRemotes
    /\ \E cached \in BOOLEAN :
          DATA_DIR = [d \in CalendarDays |->
                        IF cached /\ remote[d].kind = "OK"
                        THEN WriteFile(remote[d].text) ELSE NoFile]
    /\ requests = [d \in CalendarDays |-> 0]
    /\ quotes \in PipeQuotes
    /\ run = NoRun
    /\ last = [date |-> 1, existed |-> FALSE, before |-> NoFile, gets |-> 0,
               out |-> NoCall]
    /\ fresh = <<>>
    /\ firstText = <<>>
    /\ okCount = <<>>
    /\ pc = <<>> /\ arg = <<>> /\ resp = <<>> /\ offset = <<>>
    /\ ret = <<>> /\ nCalls = <<>>

\* A button is pressed: the script runs the tab's block, which fetches the
\* dates of its range and displays a table, a warning or the exception.
Press(block, min_volume, price_threshold) ==
    /\ run.tab = ""
    /\ Fetched(block.dates, block.calls)
    /\ run' = block.out @@ [min_volume |-> min_volume,
                            price_threshold |-> price_threshold,
                            dates |-> block.dates]
                        @@ (IF block.out.status = "table" THEN block.filters
                            ELSE NoFilters)
    /\ UNCHANGED <<remote, last, fresh, firstText, okCount, raceVars, quotes>>

RunTickerAnalysis ==
    \E symbol \in Symbols, before5pm \in BOOLEAN :
        Press(TickerAnalysis(symbol, TODAY, before5pm), 0, 0)

RunTopDarkPools ==
    \E min_volume \in MinVolumeInputs, price_threshold \in PriceThresholdInputs :
        Press(TopDarkPools(TODAY, min_volume, price_threshold),
              min_volume, price_threshold)

RunBuyVolume ==
    \E min_volume \in MinVolumeInputs, price_threshold \in PriceThresholdInputs :
        Press(VolumeAnalysis(TRUE, TODAY, TODAY, min_volume, price_threshold),
              min_volume, price_threshold)

RunSellVolume ==
    \E min_volume \in MinVolumeInputs, price_threshold \in PriceThresholdInputs :
        Press(VolumeAnalysis(FALSE, TODAY, TODAY, min_volume, price_threshold),
              min_volume, price_threshold)

RunBuySignal ==
    \E min_volume \in MinVolumeInputs, price_threshold \in PriceThresholdInputs :
        Press(BuySignalAnalysis(TODAY, TODAY, min_volume, price_threshold),
              min_volume, price_threshold)

RunAccumulation ==
    \E before5pm \in BOOLEAN, min_volume \in MinVolumeInputs,
       price_threshold \in PriceThresholdInputs :
        Press(Accumulation(TODAY, before5pm, min_volume, price_threshold),
              min_volume, price_threshold)

RunFilterAnalysis ==
    \E symbol \in {0} \cup Symbols, buy_or_sell \in {"Buy", "Sell"},
       min_volume \in MinVolumeInputs, price_threshold \in PriceThresholdInputs,
       buy_sell_ratio \in RatioInputs, dp_index \in DPIndexInputs :
        Press(FilterAnalysis(symbol, TODAY, min_volume, price_threshold,
                             buy_sell_ratio, dp_index, buy_or_sell),
              min_volume, price_threshold)

RunAccumulationAnalysis ==
    \E before5pm \in BOOLEAN, min_volume \in MinVolumeInputs :
        Press(AccumulationAnalysis(TODAY, before5pm, TODAY, min_volume),
              min_volume, 0)

NextPipe ==
    \/ RunTickerAnalysis
    \/ RunTopDarkPools
    \/ RunBuyVolume
    \/ RunSellVolume
    \/ RunBuySignal
    \/ RunAccumulation
    \/ RunFilterAnalysis
    \/ RunAccumulationAnalysis

SpecPipe == InitPipe /\ [][NextPipe]_vars

----------------------------------------------------------------------------
(* SpecBulk: one button press on daily files with more rows than a table  *)
(* may hold.                                                              *)

\* One more row than the largest head().
MaxBulk == 101
BulkSizes == {MaxBulk - 2, MaxBulk - 1, MaxBulk}

\* A day's file of n symbols, all bought more than sold, symbol k with the
\* k-th lowest ratio: (700 + k) / (300 - k).
BulkLine(date, k) == <<date, k, 700 + k, 1000>>
BulkText(date, n) == <<Header>> \o [k \in 1..n |-> BulkLine(date, k)]

BulkRemote(n, days) ==
    [d \in CalendarDays |->
        IF Published(d, days, 0)
        THEN [kind |-> "OK", text |-> BulkText(d, n)]
        ELSE NotFound]

\* yfinance has a close of 10 for every symbol but the ones in `missing`.
BulkQuotes(missing) ==
    [sym \in 1..(MaxBulk + 1) |->
        IF sym \in missing THEN Quote("empty", 0) ELSE Quote("history", 10)]

InitBulk ==
    /\ \E n \in BulkSizes, days \in {1, 2} :
          /\ remote = BulkRemote(n, days)
          /\ quotes \in {BulkQuotes({}), BulkQuotes({1}), BulkQuotes({n})}
    /\ \E cached \in BOOLEAN :
          DATA_DIR = [d \in CalendarDays |->
                        IF cached /\ remote[d].kind = "OK"
                        THEN WriteFile(remote[d].text) ELSE NoFile]
    /\ requests = [d \in CalendarDays |-> 0]
    /\ run = NoRun
    /\ last = [date |-> 1, existed |-> FALSE, before |-> NoFile, gets |-> 0,
               out |-> NoCall]
    /\ fresh = <<>>
    /\ firstText = <<>>
    /\ okCount = <<>>
    /\ pc = <<>> /\ arg = <<>> /\ resp = <<>> /\ offset = <<>>
    /\ ret = <<>> /\ nCalls = <<>>

SpecBulk == InitBulk /\ [][NextPipe]_vars

----------------------------------------------------------------------------
(* SpecRows: one button press on a single day's file made of the rows the *)
(* filters treat specially.  Volumes here count units of 100,000 shares.  *)

\* The most rows in a day's file.
MaxRows == 2

\* <<ShortVolume, TotalVolume>>: nothing sold; bought and sold both 1,000,000;
\* ratio exactly 1.5; ratio exactly 0.5; more shorted than traded.
ScenarioLines == {<<5, 5>>, <<10, 20>>, <<15, 25>>, <<10, 30>>, <<30, 20>>}

\* Symbol XYZ (symbol 1) three times: Bought 2,000,000, 1,500,000, 3,000,000
\* and Sold 1,000,000, 1,200,000, 900,000.
XYZ == <<<<20, 30>>, <<15, 27>>, <<30, 39>>>>
XYZText(date) ==
    <<Header>> \o [i \in 1..Len(XYZ) |-> <<date, 1, XYZ[i][1], XYZ[i][2]>>]

\* The file of XYZ, and the files whose i-th line is symbol i.
ScenarioTexts(date) ==
    {XYZText(date)} \cup
    {<<Header>> \o [i \in 1..Len(lines) |->
                       <<date, i, lines[i][1], lines[i][2]>>] :
        lines \in UNION {[1..n -> ScenarioLines] : n \in 1..MaxRows}}

ScenarioRemotes ==
    {[d \in CalendarDays |->
         IF d = TODAY THEN [kind |-> "OK", text |-> text] ELSE NotFound] :
        text \in ScenarioTexts(TODAY)}

InitRows ==
    /\ remote \in ScenarioRemotes
    /\ \E cached \in BOOLEAN :
          DATA_DIR = [d \in CalendarDays |->
                        IF cached /\ remote[d].kind = "OK"
                        THEN WriteFile(remote[d].text) ELSE NoFile]
    /\ requests = [d \in CalendarDays |-> 0]
    /\ quotes = [sym \in 1..(MaxRows + 1) |-> Quote("history", 10)]
    /\ run = NoRun
    /\ last = [date |-> 1, existed |-> FALSE, before |-> NoFile, gets |-> 0,
               out |-> NoCall]
    /\ fresh = <<>>
    /\ firstText = <<>>
    /\ okCount = <<>>
    /\ pc = <<>> /\ arg = <<>> /\ resp = <<>> /\ offset = <<>>
    /\ ret = <<>> /\ nCalls = <<>>

\* The inputs typed in: min_volume 0 or 1,000,000; the ratio thresholds 1.5
\* and 0.5 of the volume tab in the filter tab.
ScenarioMinVolumes == {0, 10}
ScenarioRatios == {RATIO_1_5, RATIO_0_5}

ScenarioBuyVolume ==
    \E min_volume \in ScenarioMinVolumes, price_threshold \in PriceThresholdInputs :
        Press(VolumeAnalysis(TRUE, TODAY, TODAY, min_volume, price_threshold),
              min_volume, price_threshold)

ScenarioSellVolume ==
    \E min_volume \in ScenarioMinVolumes, price_threshold \in PriceThresholdInputs :
        Press(VolumeAnalysis(FALSE, TODAY, TODAY, min_volume, price_threshold),
              min_volume, price_threshold)

ScenarioFilterAnalysis ==
    \E min_volume \in ScenarioMinVolumes, price_threshold \in PriceThresholdInputs,
       buy_sell_ratio \in ScenarioRatios, dp_index \in DPIndexInputs,
       buy_or_sell \in {"Buy", "Sell"} :
        Press(FilterAnalysis(0, TODAY, min_volume, price_threshold,
                             buy_sell_ratio, dp_index, buy_or_sell),
              min_volume, price_threshold)

\* The same rows in the opposite order.
Reverse(seq) == [i \in 1..Len(seq) |-> seq[Len(seq) + 1 - i]]

NextRows ==
    \/ NextPipe
    \/ ScenarioBuyVolume
    \/ ScenarioSellVolume
    \/ ScenarioFilterAnalysis

SpecRows == InitRows /\ [][NextRows]_vars

----------------------------------------------------------------------------
(* SpecFail: one button press when the fetch of one trading day fails.    *)

\* The ways the fetch of a date fails: no connection, a 403/404, a 200 with an
\* empty body, a 200 with a line of too many fields.
Failures ==
    {[kind |-> "ConnectionError", text |-> <<>>], NotFound,
     [kind |-> "OK", text |-> EmptyText], [kind |-> "OK", text |-> RaggedText]}

\* The short listing with the k-th last trading day failing.
FailRemote(listed, two, k, failure) ==
    [d \in CalendarDays |->
        IF d = Recent(k) THEN failure ELSE ShortRemote(listed, 0, two, 0)[d]]

\* Data/Finra holds what earlier runs left of every 200 response, or nothing.
InitFail ==
    /\ remote \in {FailRemote(listed, two, k, failure) :
                       listed \in {MaxListed - 1, MaxListed}, two \in BOOLEAN,
                       k \in 1..(MaxListed - 1), failure \in Failures}
    /\ \E cached \in BOOLEAN :
          DATA_DIR = [d \in CalendarDays |->
                        IF cached /\ remote[d].kind = "OK"
                        THEN WriteFile(remote[d].text) ELSE NoFile]
    /\ requests = [d \in CalendarDays |-> 0]
    /\ quotes = [sym \in Symbols |-> Quote("history", 10)]
    /\ run = NoRun
    /\ last = [date |-> 1, existed |-> FALSE, before |-> NoFile, gets |-> 0,
               out |-> NoCall]
    /\ fresh = <<>>
    /\ firstText = <<>>
    /\ okCount = <<>>
    /\ pc = <<>> /\ arg = <<>> /\ resp = <<>> /\ offset = <<>>
    /\ ret = <<>> /\ nCalls = <<>>

SpecFail == InitFail /\ [][NextPipe]_vars

----------------------------------------------------------------------------
(* Claims about the tabs' pipelines.                                      *)

\* The tabs that compute a rolling accumulation flag (lines 190, 306-308, 589,
\* 815) and the tabs that filter on the closing price.
RollingTabs ==
    {"Ticker Analysis", "Top Dark Pools", "Accumulation",
     "Accumulation Analysis"}
PricedTabs ==
    {"Top Dark Pools", "Buy Volume Analysis", "Sell Volume Analysis",
     "Buy Signal Analysis", "Accumulation", "Filter Analysis"}

\* C6: in every tab that computes a rolling accumulation flag, the flag of a
\* record is the count over the trailing window of 5 records of the same
\* symbol: no record of another symbol enters the window.
C6_RollingWindowWithinSymbol ==
    (run.tab \in RollingTabs /\ run.status = "table") =>
        \A i \in 1..Len(run.data) :
            run.data[i].Rolling_Accumulation =
                grouped_rolling(run.data,
                                [k \in 1..Len(run.data) |->
                                    run.data[k].Accumulation],
                                i,
                                IF run.tab = "Accumulation" THEN 3 ELSE 5)

\* C7: in every tab, the rolling accumulation flag of a record is False when
\* the record's symbol has fewer than 5 observations up to and including that
\* record in the loaded frame.
C7_ShortHistoryNeverFlagged ==
    run.status = "table" =>
        \A i \in 1..Len(run.data) :
            Len(GroupUpTo(run.data, i)) < WINDOW =>
                run.data[i].Rolling_Accumulation = FALSE

\* C8: in every tab with a price threshold and a cap, the table is the first
\* `cap` rows, in sort order, of the rows that pass every filter including the
\* price filter: head() comes after the price filter.
C8_TruncateAfterPriceFilter ==
    (run.tab \in PricedTabs /\ run.status = "table" /\ run.cap > 0) =>
        run.table = head(sort_values(with_prices(run.passed,
                                                 run.price_threshold),
                                     run.by),
                         run.cap)

\* C9: the table of every tab holds at most 100 rows, the larger of the two
\* caps, whatever the files hold.
C9_TableNeverOverCap ==
    run.status = "table" => Len(run.table) <= HEAD_VOLUME

\* C10: in every tab with a price threshold, no row of the table belongs to a
\* symbol whose lookup came back empty or raised, and no row is shown with a
\* missing price.
C10_UnpricedRowNeverShown ==
    (run.tab \in PricedTabs /\ run.status = "table") =>
        \A i \in 1..Len(run.table) :
            /\ quotes[run.table[i].Symbol].kind = "history"
            /\ ~IsNaN(run.table[i].Closing_Price)

\* A priced tab showed a table with rows in it after the filters before the
\* price filter had let through a row of a symbol that has no price.
C10_Witness ==
    /\ run.tab \in PricedTabs
    /\ run.status = "table"
    /\ run.table # <<>>
    /\ \E i \in 1..Len(run.passed) :
          quotes[run.passed[i].Symbol].kind \in {"empty", "raise"}

----------------------------------------------------------------------------
(* Claims about the filters.                                              *)

\* The tabs that test the ratio against a threshold in a "buy" or a "sell"
\* direction (lines 385, 438, 710-713), and the presence of a row in a frame.
RatioTabs == {"Buy Volume Analysis", "Sell Volume Analysis", "Filter Analysis"}
InFrame(rows, r) == \E j \in 1..Len(rows) : rows[j] = r

\* The tests of a ratio tab other than the one on the ratio: the volume filter
\* and, in Filter Analysis, the DP Index test and the date cut.
PassesTheRest(r) ==
    /\ r.Bought >= run.min_volume
    /\ r.Sold >= run.min_volume
    /\ run.tab = "Filter Analysis" =>
          /\ IF run.mode = "Buy" THEN GE(r.DP_Index, Num(run.dp_index))
             ELSE LE(r.DP_Index, Num(run.dp_index))
          /\ r.Date >= run.cutoff

\* C11: a row with nothing sold and something bought has an infinite
\* Buy-Sell Ratio; in a sell mode it never passes the filters, whatever the
\* finite threshold, and in a buy mode it passes them whenever it passes the
\* tests that are not about the ratio.
C11_NothingSoldPassesBuyFailsSell ==
    (run.status = "table" /\ run.tab \in RatioTabs) =>
        \A i \in 1..Len(run.data) :
            LET r == run.data[i]
            IN  (r.Sold = 0 /\ r.Bought > 0) =>
                    /\ r.Buy_Sell_Ratio.d = 0 /\ r.Buy_Sell_Ratio.n > 0
                    /\ run.mode = "Sell" => ~InFrame(run.passed, r)
                    /\ (run.mode = "Buy" /\ PassesTheRest(r)) =>
                           InFrame(run.passed, r)

\* A buy mode with threshold 1.5 passed the row with 500,000 bought and
\* nothing sold, and displays it.
C11_Witness ==
    /\ run.status = "table" /\ run.tab \in RatioTabs
    /\ run.mode = "Buy" /\ run.ratio = RATIO_1_5
    /\ \E i \in 1..Len(run.passed) :
          /\ run.passed[i].Bought = 5 /\ run.passed[i].Sold = 0
          /\ \E j \in 1..Len(run.table) :
                run.table[j].Symbol = run.passed[i].Symbol

\* "Buy Volume Analysis" ran with min_volume 1,000,000 on the three rows of
\* XYZ.
XYZRun ==
    /\ run.status = "table" /\ run.tab = "Buy Volume Analysis"
    /\ run.min_volume = 10
    /\ Len(run.data) = Len(XYZ)
    /\ \A i \in 1..Len(XYZ) :
          /\ run.data[i].Bought = XYZ[i][1]
          /\ run.data[i].Sold = XYZ[i][2] - XYZ[i][1]

\* C12 as stated: of the rows of XYZ exactly the ones bought 2,000,000 times
\* (ratio 2.0) and 3,000,000 times (ratio 3.33) pass the filters, and the
\* first row of the table is the one with Bought 3,000,000.
C12_TwoRowsSurvive ==
    XYZRun =>
        /\ Len(run.passed) = 2
        /\ {run.passed[i].Bought : i \in 1..Len(run.passed)} = {20, 30}
        /\ run.table # <<>> /\ run.table[1].Bought = 30

\* C12 as amended: exactly the row with ratio 2.0 passes the filters (the row
\* with ratio 3.33 sold 900,000, less than min_volume), and it is the first
\* row of the table.
C12_OnlyRatioTwoSurvives ==
    XYZRun =>
        /\ Len(run.passed) = 1
        /\ run.passed[1].Bought = 20
        /\ GE(run.passed[1].Buy_Sell_Ratio, Num(2))
        /\ LE(run.passed[1].Buy_Sell_Ratio, Num(2))
        /\ run.table # <<>> /\ run.table[1].Bought = 20

C12_Witness == XYZRun /\ Len(run.table) = 1

\* What a ratio tab displays of the rows that passed its filters: the volume
\* tab sorts, cuts and then prices (lines 391-400, 444-453), the filter tab
\* prices and then sorts (lines 723-741).
Ranked(rows) ==
    IF run.tab = "Filter Analysis"
    THEN sort_values(with_prices(rows, run.price_threshold), run.by)
    ELSE with_prices(head(sort_values(rows, run.by), run.cap),
                     run.price_threshold)

\* C13: a ratio tab displays the same rows in the same order when the input
\* rows come in the opposite order, ties on the whole sort key included.  The
\* filters of these tabs look at one row at a time and keep the order, so the
\* rows that pass them then come in the opposite order too.
C13_ReversedInputSameTable ==
    (run.status = "table" /\ run.tab \in RatioTabs) =>
        Ranked(Reverse(run.passed)) = run.table

\* C18: the tests of a ratio tab are inclusive: a row of the frame passes the
\* filters exactly when Bought >= min_volume, Sold >= min_volume, its ratio is
\* >= the threshold in a buy mode and <= the threshold in a sell mode, and it
\* passes the tab's other tests; this in Buy Volume (1.5), Sell Volume (0.5)
\* and Filter Analysis.
C18_ThresholdsAreInclusive ==
    (run.status = "table" /\ run.tab \in RatioTabs) =>
        \A i \in 1..Len(run.data) :
            LET r == run.data[i]
            IN  InFrame(run.passed, r)
                <=> /\ PassesTheRest(r)
                    /\ IF run.mode = "Buy" THEN GE(r.Buy_Sell_Ratio, run.ratio)
                       ELSE LE(r.Buy_Sell_Ratio, run.ratio)

----------------------------------------------------------------------------
(* Claims about the derived columns.                                      *)

\* The frame of a press holds the derived records in every tab but Top Dark
\* Pools, which sums them by symbol and date first (lines 300-304).

C15_DPIndexWithinPercent ==
    (run.status = "table" /\ run.tab # "Top Dark Pools") =>
        \A i \in 1..Len(run.data) :
            LET r == run.data[i]
            IN  (r.ShortVolume >= 0 /\ r.TotalVolume >= 0 /\ r.Total_Volume > 0)
                    => /\ GE(r.DP_Index, Num(0))
                       /\ LE(r.DP_Index, Num(100))

----------------------------------------------------------------------------
(* Claims about a run over a range of dates.                              *)

\* The volume tab loads one date; every other tab loads a range of dates (lines
\* 161, 273, 486, 560, 675, 773).  Of these Buy Signal, Accumulation and
\* Accumulation Analysis keep every row of a day's file (Ticker Analysis and
\* Filter Analysis keep one symbol's, Top Dark Pools the rows above min_volume).

\* C16: a press of a range tab never ends in an uncaught exception, whatever
\* the fetch of a date ends in: it displays a table or the "no data" warning,
\* every date of the range that the remote has a well-formed file for was
\* fetched, and its rows are in the frame of a tab that keeps every row.
C16_FailedDateDoesNotAbort ==
    (run.tab # "" /\ run.tab \notin {"Buy Volume Analysis",
                                     "Sell Volume Analysis"}) =>
        /\ run.status \in {"table", "warning"}
        /\ \A i \in 1..Len(run.dates) :
              (/\ remote[run.dates[i]].kind = "OK"
               /\ read_csv(remote[run.dates[i]].text).kind = "data") =>
                  /\ DATA_DIR[run.dates[i]].exists
                  /\ run.tab \in {"Buy Signal Analysis", "Accumulation",
                                  "Accumulation Analysis"} =>
                        \E j \in 1..Len(run.data) :
                            run.data[j].Date = run.dates[i]

----------------------------------------------------------------------------
(* Claims about the rolling flag and the date cut.                        *)

\* C17: in Ticker Analysis, Accumulation and Accumulation Analysis, take the
\* observations of one symbol in the order of the frame: the rolling flag of
\* its n-th observation is True exactly when n >= 5 and, of the symbol's
\* observations n-4 .. n, at least 3 (Accumulation, line 589) or 5 (the other
\* two, lines 190 and 815) have the accumulation flag.
C17_RollingFlagCountsOwnWindow ==
    (run.status = "table"
     /\ run.tab \in {"Ticker Analysis", "Accumulation", "Accumulation Analysis"})
    => \A i \in 1..Len(run.data) :
           LET own == GroupUpTo(run.data, i)
               n == Len(own)
               trues == {k \in 1..n : /\ k > n - WINDOW
                                      /\ run.data[own[k]].Accumulation}
           IN  run.data[i].Rolling_Accumulation
               <=> /\ n >= WINDOW
                   /\ Cardinality(trues) >= IF run.tab = "Accumulation" THEN 3
                                            ELSE 5

\* C19: in every tab with a date cut (Buy Signal, Accumulation, Filter
\* Analysis, Accumulation Analysis; lines 523, 614, 721, 826), of the rows
\* that pass the other filters exactly the ones dated on or after the start
\* date pass the cut; a row dated on the start date does.
C19_CutKeepsStartDate ==
    (run.status = "table"
     /\ run.tab \in {"Buy Signal Analysis", "Accumulation", "Filter Analysis",
                     "Accumulation Analysis"}) =>
        LET OnOrAfter(r) == r.Date >= run.cutoff
        IN  run.passed = SelectSeq(run.undated, OnOrAfter)

----------------------------------------------------------------------------
(* Claims about the price lookups.                                        *)

\* The frame whose symbols a tab hands to fetch_closing_prices: Top Dark Pools
\* and the volume tab cut the frame with head() first (lines 320-323, 391-397,
\* 444-450), the others hand over every row that passed.
Enriched ==
    IF run.tab \in {"Top Dark Pools", "Buy Volume Analysis",
                    "Sell Volume Analysis"}
    THEN head(sort_values(run.passed, run.by), run.cap)
    ELSE run.passed

----------------------------------------------------------------------------
(* Claims about the end date of the range.                                *)

\* C21: a press of Top Dark Pools, Buy Signal or Filter Analysis has the
\* selected end date in its range of dates exactly when Data/Finra held the
\* file of that date before the press; when it did not, the range ends the day
\* before, the press sends no request for the end date and leaves no file for
\* it.
C21_EndDateOnlyWhenCached ==
    [][(/\ run.tab = ""
        /\ run'.tab \in {"Top Dark Pools", "Buy Signal Analysis",
                         "Filter Analysis"}) =>
          /\ (\E i \in 1..Len(run'.dates) : run'.dates[i] = TODAY)
             <=> DATA_DIR[TODAY].exists
          /\ ~DATA_DIR[TODAY].exists =>
                /\ run'.dates[Len(run'.dates)] = TODAY - 1
                /\ requests'[TODAY] = requests[TODAY]
                /\ ~DATA_DIR'[TODAY].exists]_vars

\* One of the three tabs ran while FINRA had the file of the end date and
\* Data/Finra did not: the date was not asked for and has no file.
C21_Witness ==
    /\ run.tab \in {"Top Dark Pools", "Buy Signal Analysis", "Filter Analysis"}
    /\ run.status = "table"
    /\ remote[TODAY].kind = "OK"
    /\ ~DATA_DIR[TODAY].exists
    /\ requests[TODAY] = 0
    /\ \A i \in 1..Len(run.dates) : run.dates[i] < TODAY

----------------------------------------------------------------------------
(* Claims about the buy signals.                                          *)

\* C22: every row "Run Buy Signal Analysis" takes for a buy signal (lines
\* 514-521, before the cut at the signal dates) belongs to a symbol with at
\* least 20 observations in the frame up to and including that row: the 5, 10
\* and 20 observation means of the DP Index are taken within the symbol and
\* are NaN, so not > 50, below a full window.
C22_SignalNeedsTwentyObservations ==
    (run.status = "table" /\ run.tab = "Buy Signal Analysis") =>
        \A k \in 1..Len(run.undated) :
            \E i \in 1..Len(run.data) :
                /\ run.data[i] = run.undated[k]
                /\ Len(GroupUpTo(run.data, i)) >= 20

\* A buy signal on the 20th observation of its symbol, displayed, while the
\* symbol's earlier rows gave none.
C22_Witness ==
    /\ run.status = "table" /\ run.tab = "Buy Signal Analysis"
    /\ run.table # <<>>
    /\ \E i \in 1..Len(run.data) :
          /\ Len(GroupUpTo(run.data, i)) = 20
          /\ InFrame(run.undated, run.data[i])
          /\ ~InFrame(run.undated, run.data[GroupUpTo(run.data, i)[19]])

====
